---------------------------- MODULE Spec2Model ----------------------------
(***************************************************************************)
(* A model of nbn-re.com.au.userscript.user.js: the suburb lookup          *)
(* (fetchSuburbGeoJSON), its IndexedDB cache (idbGet, idbSet), the fetch   *)
(* scheduler (enqueue / processQueue) and the cache sweep (cleanupCache).  *)
(*                                                                         *)
(* One step of the model is one task of the browser's event loop together  *)
(* with the promise reactions (microtasks) it triggers: nothing else can   *)
(* run between them.  Strings are sequences of one-character strings.      *)
(***************************************************************************)
EXTENDS Integers, Sequences, FiniteSets, TLC

\* ------------------------------------------------------------------------
\* Configuration (the script's "Config" block)
\* ------------------------------------------------------------------------

REPO_RAW_BASE == "https://raw.githubusercontent.com/LukePrior/nbn-upgrade-map/main/results"

\* The clock of the model counts seconds, not milliseconds: TLC's integers
\* are 32 bits wide and the 2 419 200 000 ms of CACHE_EXPIRY_MS do not fit.
\* Every duration of the script is a whole number of seconds, and the script
\* only subtracts and compares times.
Day == 24 * 60 * 60

\* 7 * 24 * 60 * 60 * 1000 ms
CACHE_TTL_MS == 7 * Day

\* 4 * 7 * 24 * 60 * 60 * 1000 ms
CACHE_EXPIRY_MS == 4 * 7 * Day

MAX_CONCURRENT_FETCHES == 4

CACHE_MAX_ENTRIES == 100

\* ------------------------------------------------------------------------
\* Bounds of the model
\* ------------------------------------------------------------------------

\* Lookups that may overlap in the scheduler specification.
NumTasks == 6

\* The lookups the scheduler specification with completion calls.
LiveTasks == 5

\* The clock runs over the instants around k * CACHE_TTL_MS, k <= MaxPeriods.
MaxPeriods == 1

\* Largest store the sweep specification starts from.
MaxEntries == 102

\* Largest number of entries seeded past the expiry horizon.
MaxExpired == 2

\* Longest text given to toRepoSlug and candidateFilenames.
MaxLen == 3

\* Most features in a feature collection.
MaxFeatures == 3

\* The listing cards of the page.
MaxCards == 2

\* The successful refreshes of a session.
MaxRefreshes == 3

\* ------------------------------------------------------------------------
\* Characters and strings
\* ------------------------------------------------------------------------

LowerLetters ==
  << "a", "b", "c", "d", "e", "f", "g", "h", "i", "j", "k", "l", "m",
     "n", "o", "p", "q", "r", "s", "t", "u", "v", "w", "x", "y", "z" >>

UpperLetters ==
  << "A", "B", "C", "D", "E", "F", "G", "H", "I", "J", "K", "L", "M",
     "N", "O", "P", "Q", "R", "S", "T", "U", "V", "W", "X", "Y", "Z" >>

LowerChars == { LowerLetters[i] : i \in 1..Len(LowerLetters) }

UpperChars == { UpperLetters[i] : i \in 1..Len(UpperLetters) }

DigitChars == {"0", "1", "2", "3", "4", "5", "6", "7", "8", "9"}

\* \s of a JavaScript regular expression (the ones of the alphabet).
SpaceChars == {" ", "\t", "\n"}

\* The place of letter c in letters.
LetterIndex(c, letters) == CHOOSE i \in 1..Len(letters) : letters[i] = c

\* String.prototype.toLowerCase, one character.
LowerOf(c) ==
  IF c \in UpperChars THEN LowerLetters[LetterIndex(c, UpperLetters)]
  ELSE IF c = "U+00C9" THEN "U+00E9"
  ELSE c

\* String.prototype.toUpperCase, one character.
UpperOf(c) ==
  IF c \in LowerChars THEN UpperLetters[LetterIndex(c, LowerLetters)]
  ELSE IF c = "U+00E9" THEN "U+00C9"
  ELSE c

\* The combining acute accent U+0301, in the range U+0300..U+036F.
CombiningAcute == "U+0301"

CombiningMarks == {CombiningAcute}

\* normalize('NFKD'), one character: the compatibility decomposition.
NFKD(c) ==
  CASE c = "U+00E9" -> <<"e", CombiningAcute>>
    [] c = "U+00C9" -> <<"E", CombiningAcute>>
    [] OTHER -> <<c>>

\* encodeURIComponent, one character: A-Z a-z 0-9 - _ . ! ~ * ' ( ) are kept,
\* every other character becomes the %XX of its UTF-8 bytes.
Unreserved ==
  LowerChars \cup UpperChars \cup DigitChars
    \cup {"-", "_", ".", "!", "~", "*", "'", "(", ")"}

PercentEncode(c) ==
  CASE c \in Unreserved -> <<c>>
    [] c = " " -> <<"%", "2", "0">>
    [] c = "\t" -> <<"%", "0", "9">>
    [] c = "\n" -> <<"%", "0", "A">>
    [] c = "&" -> <<"%", "2", "6">>
    [] c = "/" -> <<"%", "2", "F">>
    [] c = "|" -> <<"%", "7", "C">>
    [] c = "U+00E9" -> <<"%", "C", "3", "%", "A", "9">>
    [] c = "U+00C9" -> <<"%", "C", "3", "%", "8", "9">>
    [] c = CombiningAcute -> <<"%", "C", "C", "%", "8", "1">>

RECURSIVE Flatten(_)
\* The strings of the sequence ss, one after the other.
Flatten(ss) ==
  IF ss = <<>> THEN <<>> ELSE Head(ss) \o Flatten(Tail(ss))

\* s without the characters outside Keep: replace(/[^...]/g, '').
KeepChars(Keep, s) == SelectSeq(s, LAMBDA c : c \in Keep)

RECURSIVE CollapseRuns(_, _, _)
\* replace(/X+/g, to): every maximal run of characters of Run becomes `to`.
CollapseRuns(Run, to, s) ==
  IF s = <<>> THEN <<>>
  ELSE IF Head(s) \in Run
       THEN IF Len(s) > 1 /\ s[2] \in Run
            THEN CollapseRuns(Run, to, Tail(s))
            ELSE <<to>> \o CollapseRuns(Run, to, Tail(s))
       ELSE <<Head(s)>> \o CollapseRuns(Run, to, Tail(s))

RECURSIVE TrimStart(_)
TrimStart(s) ==
  IF s # <<>> /\ Head(s) \in SpaceChars THEN TrimStart(Tail(s)) ELSE s

RECURSIVE TrimEnd(_)
TrimEnd(s) ==
  IF s # <<>> /\ s[Len(s)] \in SpaceChars
  THEN TrimEnd(SubSeq(s, 1, Len(s) - 1))
  ELSE s

\* String.prototype.trim
Trim(s) == TrimEnd(TrimStart(s))

toLowerCase(s) == [i \in DOMAIN s |-> LowerOf(s[i])]

toUpperCase(s) == [i \in DOMAIN s |-> UpperOf(s[i])]

\* A surrogate code unit that is not part of a pair (here a high surrogate
\* followed by no low surrogate).
LoneSurrogates == {"U+D83D"}

\* encodeURIComponent(s) throws URIError: s holds a lone surrogate.
MalformedURI(s) == \E i \in DOMAIN s : s[i] \in LoneSurrogates

\* encodeURIComponent(s), for s that is not MalformedURI.
encodeURIComponent(s) == Flatten([i \in DOMAIN s |-> PercentEncode(s[i])])

\* replace(/&/g, 'and')
AmpToAnd(c) == IF c = "&" THEN <<"a", "n", "d">> ELSE <<c>>

\* replace(/-/g, '_')
DashToUnderscore(c) == IF c = "-" THEN "_" ELSE c

\* ------------------------------------------------------------------------
\* toRepoSlug and candidateFilenames
\* ------------------------------------------------------------------------

\* normalize('NFKD').replace(/[\u0300-\u036f]/g, '')
StripDiacritics(s) ==
  SelectSeq(Flatten([i \in DOMAIN s |-> NFKD(s[i])]), LAMBDA c : c \notin CombiningMarks)

\* The value of a missing argument: told from every text, which is a
\* sequence of single characters.
Undefined == <<"undefined">>

\* x || ''
OrEmpty(x) == IF x = Undefined THEN <<>> ELSE x

\* toRepoSlug with the dashes collapsed before the spaces are replaced.
toRepoSlug_CollapseBeforeSpaces(name) ==
  IF name = Undefined \/ name = <<>> THEN <<>>
  ELSE LET n1 == toLowerCase(Trim(name))
           n2 == Flatten([i \in DOMAIN n1 |-> AmpToAnd(n1[i])])
           n3 == StripDiacritics(n2)
           n4 == KeepChars(LowerChars \cup DigitChars \cup SpaceChars
                             \cup {"-"}, n3)
           n5 == CollapseRuns({"-"}, "-", n4)
       IN  CollapseRuns(SpaceChars, "-", n5)

toRepoSlug(name) ==
  IF name = Undefined \/ name = <<>> THEN <<>>
  ELSE LET n1 == toLowerCase(Trim(name))
           n2 == Flatten([i \in DOMAIN n1 |-> AmpToAnd(n1[i])])
           n3 == StripDiacritics(n2)
           n4 == KeepChars(LowerChars \cup DigitChars \cup SpaceChars \cup {"-"}, n3)
           n5 == CollapseRuns(SpaceChars, "-", n4)
       IN  CollapseRuns({"-"}, "-", n5)

Ext == <<".", "g", "e", "o", "j", "s", "o", "n">>

\* Array.from(new Set(names)): the first occurrence of each element, in order.
Uniq(names) ==
  LET first == { i \in 1..Len(names) :
                   \A j \in 1..(i - 1) : names[j] # names[i] }
  IN  [ k \in 1..Cardinality(first) |->
          names[CHOOSE i \in first :
                  Cardinality({ j \in first : j <= i }) = k] ]

\* candidateFilenames(suburb, state) throws: the template literal of line 138
\* calls encodeURIComponent(s).
candidateFilenamesThrows(suburb, state) == MalformedURI(OrEmpty(suburb))

\* What candidateFilenames(suburb, state) returns when it does not throw.
candidateFilenames(suburb, state) ==
  LET s    == OrEmpty(suburb)
      slug == toRepoSlug(s)
      st   == toUpperCase(OrEmpty(state))
      names ==
        << st \o <<"/">> \o slug \o Ext,
           st \o <<"/">> \o encodeURIComponent(s) \o Ext,
           st \o <<"/">> \o [i \in DOMAIN slug |-> DashToUnderscore(slug[i])] \o Ext,
           st \o <<"/">>
              \o KeepChars(LowerChars \cup DigitChars \cup {"-"},
                           CollapseRuns(SpaceChars, "-", toLowerCase(s)))
              \o Ext >>
  IN  Uniq(names)

\* const key = `${state}|${toRepoSlug(suburb)}`
CacheKey(suburb, state) == state \o <<"|">> \o toRepoSlug(suburb)

\* candidateFilenames(suburb, state).map(p => `${REPO_RAW_BASE}/${p}`)
CandidateUrls(suburb, state) ==
  LET names == candidateFilenames(suburb, state)
  IN  [i \in 1..Len(names) |-> <<REPO_RAW_BASE, "/">> \o names[i]]

\* ------------------------------------------------------------------------
\* Feature collections: normalizeAddress, indexGeojsonAddresses,
\* matchListingAddressToFeature
\* ------------------------------------------------------------------------

\* null
Null == [t |-> "null"]

\* if (v): v is neither undefined nor the empty string.
Truthy(v) == v # Undefined /\ v # <<>>

\* props[k] for `const props = feature.properties || {}`.
Prop(feature, k) ==
  IF feature.properties = Null THEN Undefined
  ELSE IF k \in DOMAIN feature.properties THEN feature.properties[k]
  ELSE Undefined

RECURSIVE FirstTruthy(_, _)
\* props[keys[1]] || props[keys[2]] || ...: the first truthy operand, or the
\* last operand.
FirstTruthy(feature, keys) ==
  IF Len(keys) = 1 \/ Truthy(Prop(feature, Head(keys)))
  THEN Prop(feature, Head(keys))
  ELSE FirstTruthy(feature, Tail(keys))

AddressKeys ==
  << "full_address", "address", "premise_address", "ADDRESS", "addr",
     "street_address" >>

\* \w of a JavaScript regular expression.
WordChars == LowerChars \cup UpperChars \cup DigitChars \cup {"_"}

RECURSIVE SplitRuns(_, _)
\* s cut into its maximal runs of characters of Run and, between them, its
\* other characters one by one.
SplitRuns(Run, s) ==
  IF s = <<>> THEN <<>>
  ELSE LET rest == SplitRuns(Run, Tail(s))
       IN  IF Head(s) \in Run /\ rest # <<>> /\ Head(rest)[1] \in Run
           THEN << <<Head(s)>> \o Head(rest) >> \o Tail(rest)
           ELSE << <<Head(s)>> >> \o rest

\* The replacements of lines 246-252 on one word: \b(st|str)\b matches
\* exactly a maximal run of word characters that is `st` or `str`.
Abbreviation(w) ==
  CASE w = <<"s", "t">> \/ w = <<"s", "t", "r">> ->
         <<"s", "t", "r", "e", "e", "t">>
    [] w = <<"r", "d">> -> <<"r", "o", "a", "d">>
    [] w = <<"a", "v", "e">> -> <<"a", "v", "e", "n", "u", "e">>
    [] w = <<"c", "t">> -> <<"c", "o", "u", "r", "t">>
    [] w = <<"p", "l">> -> <<"p", "l", "a", "c", "e">>
    [] w = <<"l", "n">> -> <<"l", "a", "n", "e">>
    [] w = <<"d", "r">> -> <<"d", "r", "i", "v", "e">>
    [] OTHER -> w

\* The seven replace calls of lines 246-252, one after the other: no
\* replacement text is an abbreviation, so each word is replaced at most
\* once.
ExpandAbbreviations(a) ==
  LET words == SplitRuns(WordChars, a)
  IN  Flatten([i \in DOMAIN words |-> Abbreviation(words[i])])

RECURSIVE UnitSlashRuns(_)
\* replace(/(\d+)\/(\d+)/g, 'unit $1 $2') on a text cut into its runs of
\* digits: matches are taken from the left and do not overlap.
UnitSlashRuns(runs) ==
  IF runs = <<>> THEN <<>>
  ELSE IF /\ Len(runs) >= 3
          /\ runs[1][1] \in DigitChars
          /\ runs[2] = <<"/">>
          /\ runs[3][1] \in DigitChars
       THEN <<"u", "n", "i", "t", " ">> \o runs[1] \o <<" ">> \o runs[3]
              \o UnitSlashRuns(SubSeq(runs, 4, Len(runs)))
       ELSE runs[1] \o UnitSlashRuns(Tail(runs))

\* The class of line 256: . , / # ! $ % ^ & * ; : { } = - _ ~ ( ) and the
\* backtick U+0060.
Punctuation ==
  { ".", ",", "/", "#", "!", "$", "%", "^", "&", "*", ";", ":", "{", "}",
    "=", "-", "_", "U+0060", "~", "(", ")" }

normalizeAddress(addr) ==
  IF ~Truthy(addr) THEN <<>>
  ELSE LET a1 == ExpandAbbreviations(toLowerCase(addr))
           a2 == UnitSlashRuns(SplitRuns(DigitChars, a1))
           a3 == SelectSeq(a2, LAMBDA c : c \notin Punctuation)
       IN  Trim(CollapseRuns(SpaceChars, " ", a3))

\* !geojson || !Array.isArray(geojson.features), negated.
HasFeatures(geojson) == geojson # Null /\ "features" \in DOMAIN geojson

\* indexGeojsonAddresses with `if (address && !index.has(key))`: the first
\* feature of an address is kept.
RECURSIVE indexFeatures_FirstWins(_)
indexFeatures_FirstWins(features) ==
  IF features = <<>> THEN <<>>
  ELSE LET index   == indexFeatures_FirstWins(SubSeq(features, 1,
                                                     Len(features) - 1))
           feature == features[Len(features)]
           address == FirstTruthy(feature, AddressKeys)
       IN  IF Truthy(address)
           THEN index @@ (normalizeAddress(address) :> feature)
           ELSE index

\* The Map the loop of lines 265-271 leaves after the features: each
\* index.set replaces what an earlier feature set for the same key.
RECURSIVE indexFeatures(_)
indexFeatures(features) ==
  IF features = <<>> THEN <<>>
  ELSE LET index   == indexFeatures(SubSeq(features, 1, Len(features) - 1))
           feature == features[Len(features)]
           address == FirstTruthy(feature, AddressKeys)
       IN  IF Truthy(address)
           THEN (normalizeAddress(address) :> feature) @@ index
           ELSE index

indexGeojsonAddresses(geojson) ==
  IF HasFeatures(geojson) THEN indexFeatures(geojson.features) ELSE <<>>

matchListingAddressToFeature(listingAddress, addressIndex) ==
  IF ~Truthy(listingAddress) THEN Null
  ELSE LET normalized == normalizeAddress(listingAddress)
       IN  IF normalized \in DOMAIN addressIndex
           THEN addressIndex[normalized]
           ELSE Null

\* Texts of the feature pool.
Text1Ln == <<"1", " ", "L", "n">>

Text1LaneDot == <<"1", " ", "l", "a", "n", "e", ".">>

Text2Slash1LN == <<"2", "/", "1", " ", "L", "N">>

TextUnit21Lane ==
  <<"u", "n", "i", "t", " ", "2", " ", "1", " ", "l", "a", "n", "e">>

Text9Rd == <<"9", " ", "R", "d">>

TextFTTP == <<"F", "T", "T", "P">>

TextFttp == <<"f", "t", "t", "p">>

TextHfc == <<"h", "f", "c">>

\* Two geometries, each with the text JSON.stringify gives for it.
Point1 == [json |-> "{\"type\":\"Point\",\"coordinates\":[153,-27]}"]

Point2 == [json |-> "{\"type\":\"Point\",\"coordinates\":[151,-33]}"]

\* The features collections are made of: with the address under one key or
\* another, after an empty one, or absent; with and without geometry; with
\* and without properties.
FeaturePool ==
  { [ properties |-> [full_address |-> Text1Ln, technology |-> TextFTTP],
      geometry   |-> Point1 ],
    [ properties |-> [full_address |-> <<>>, address |-> Text1LaneDot,
                      technology |-> TextFttp],
      geometry   |-> Null ],
    [ properties |-> [addr |-> Text2Slash1LN, type |-> TextHfc],
      geometry   |-> Point2 ],
    [ properties |-> [technology |-> TextFTTP],
      geometry   |-> Null ],
    [ properties |-> [technology |-> TextFTTP, street_address |-> Text9Rd],
      geometry   |-> Point2 ],
    [ properties |-> Null,
      geometry   |-> Point1 ] }

\* The feature collections of at most n features.
Collections(n) ==
  { [features |-> fs] : fs \in UNION { [1..k -> FeaturePool] : k \in 0..n } }

\* The street texts of listings: none, empty, and texts that normalise to
\* the address of a pooled feature or of none.
Streets ==
  { Undefined, <<>>, <<"1", " ", "L", "N">>, TextUnit21Lane,
    <<"9", " ", "r", "d", ".">>, <<"3", " ", "S", "t">> }

\* t.includes(sub).
Includes(t, sub) ==
  \E i \in 0..(Len(t) - Len(sub)) : SubSeq(t, i + 1, i + Len(sub)) = sub

\* The tests of normalizeTypeString in their order: the category returned and
\* the texts looked for.
TypeKeywords ==
  << [ category |-> <<"F", "T", "T", "P">>,
       keywords |->
         { <<"f", "t", "t", "p">>,
           <<"f", "i", "b", "r", "e", " ", "t", "o", " ", "t", "h", "e",
            " ", "p", "r", "e", "m", "i", "s", "e", "s">> } ],
     [ category |-> <<"F", "T", "T", "N">>,
       keywords |->
         { <<"f", "t", "t", "n">>,
           <<"f", "i", "b", "r", "e", " ", "t", "o", " ", "t", "h", "e",
            " ", "n", "o", "d", "e">> } ],
     [ category |-> <<"F", "T", "T", "C">>,
       keywords |->
         { <<"f", "t", "t", "c">>,
           <<"f", "i", "b", "r", "e", " ", "t", "o", " ", "t", "h", "e",
            " ", "c", "u", "r", "b">> } ],
     [ category |-> <<"H", "F", "C">>,
       keywords |->
         { <<"h", "f", "c">>,
           <<"h", "y", "b", "r", "i", "d">> } ],
     [ category |-> <<"F", "T", "T", "B">>,
       keywords |->
         { <<"f", "t", "t", "b">>,
           <<"f", "i", "b", "r", "e", " ", "t", "o", " ", "t", "h", "e",
            " ", "b", "u", "i", "l", "d", "i", "n", "g">> } ],
     [ category |-> <<"F", "i", "x", "e", "d", " ", "W", "i", "r", "e", "l", "e",
          "s", "s">>,
       keywords |->
         { <<"f", "i", "x", "e", "d", " ", "w", "i", "r", "e", "l", "e",
            "s", "s">>,
           <<"f", "i", "x", "e", "d", "w", "i", "r", "e", "l", "e", "s",
            "s">>,
           <<"f", "i", "x", "e", "d", "-", "w", "i", "r", "e", "l", "e",
            "s", "s">> } ],
     [ category |-> <<"S", "a", "t", "e", "l", "l", "i", "t", "e">>,
       keywords |->
         { <<"s", "a", "t", "e", "l", "l", "i", "t", "e">>,
           <<"s", "a", "t">> } ],
     [ category |-> <<"N", "o", "n", "-", "N", "B", "N">>,
       keywords |->
         { <<"n", "o", "n">>,
           <<"u", "n", "k", "n", "o", "w", "n">>,
           <<"n", "o", "t">>,
           <<"n", "o", " ", "n", "b", "n">> } ] >>

NonNBN == <<"N", "o", "n", "-", "N", "B", "N">>

RECURSIVE FirstKeyword(_, _)
FirstKeyword(t, i) ==
  IF i > Len(TypeKeywords) THEN 0
  ELSE IF \E k \in TypeKeywords[i].keywords : Includes(t, k) THEN i
  ELSE FirstKeyword(t, i + 1)

normalizeTypeString(s) ==
  IF ~Truthy(s) THEN NonNBN
  ELSE LET i == FirstKeyword(toLowerCase(s), 1)
       IN  IF i = 0 THEN s ELSE TypeKeywords[i].category

\* The keys of the candidates array and of the fallback, in their order.
TypeKeys ==
  << "nbn_technology", "technology", "connection_type", "type", "nbn_type",
     "status", "service_type", "network", "preset", "label" >>

\* The type of a feature before normalizeTypeString (lines 300-312); the
\* values are texts, which String(c) leaves as they are.
RawType(f) ==
  LET c == FirstTruthy(f, TypeKeys)
  IN  IF Truthy(c) THEN c ELSE NonNBN

\* What line 320 takes as the example of a feature: its address, else the
\* JSON text of its geometry, else ''.
ExampleOf(f) ==
  LET address == FirstTruthy(f, AddressKeys)
  IN  IF Truthy(address) THEN address
      ELSE IF f.geometry # Null THEN <<f.geometry.json>>
      ELSE <<>>

\* The counts and examples after the loop of lines 287-322 over features.
RECURSIVE summarizeFeatures(_)
summarizeFeatures(features) ==
  IF features = <<>> THEN [counts |-> <<>>, examples |-> <<>>]
  ELSE LET r    == summarizeFeatures(SubSeq(features, 1, Len(features) - 1))
           f    == features[Len(features)]
           type == normalizeTypeString(RawType(f))
           n    == IF type \in DOMAIN r.counts THEN r.counts[type] ELSE 0
           unset == IF type \in DOMAIN r.examples
                    THEN ~Truthy(r.examples[type])
                    ELSE TRUE
       IN  [ counts   |-> (type :> (n + 1)) @@ r.counts,
             examples |-> IF unset
                          THEN (type :> ExampleOf(f)) @@ r.examples
                          ELSE r.examples ]

RECURSIVE SumCounts(_)
SumCounts(counts) ==
  IF DOMAIN counts = {} THEN 0
  ELSE LET k == CHOOSE x \in DOMAIN counts : TRUE
       IN  counts[k] + SumCounts([x \in DOMAIN counts \ {k} |-> counts[x]])

summarizeGeoJSON(geojson) ==
  IF ~HasFeatures(geojson)
  THEN [counts |-> <<>>, examples |-> <<>>, total |-> 0]
  ELSE LET r == summarizeFeatures(geojson.features)
       IN  [ counts |-> r.counts, examples |-> r.examples,
             total |-> SumCounts(r.counts) ]

\* ------------------------------------------------------------------------
\* Values
\* ------------------------------------------------------------------------

\* What the remote side can answer to one fetch(url):
\*   ok_fc       200, the body parses to a feature collection
\*   ok_other    200, the body parses to JSON that is no feature collection
\*               (for instance {} or 42)
\*   ok_null     200, the body is the JSON text null
\*   ok_badjson  200, JSON.parse throws
\*   http_error  res.ok is false
\*   net_error   fetch(url) or res.text() rejects
Responses ==
  {"ok_fc", "ok_other", "ok_null", "ok_badjson", "http_error", "net_error"}

\* The parsed body of url. shape "fc": an object with a features array.
Payload(url, shape) == [t |-> "data", file |-> url, shape |-> shape]

\* data.generated || data.generated_at || null: a feature collection of the
\* repository carries its generation date, other JSON does not.
GeneratedAt(data) == IF data.shape = "fc" THEN "generated" ELSE "null"

\* An error thrown while candidate url was tried.
FetchError(url, kind) == [t |-> "error", kind |-> kind, url |-> url]

\* new Error('No candidate returned')
NoCandidateError == [t |-> "error", kind |-> "no_candidate"]

\* The rejection of indexedDB.open or of a request (req.error).
IdbError(op) == [t |-> "error", kind |-> "idb", op |-> op]

None == [t |-> "none"]

\* The record of a lookup that has not been called. suburb, state, force: the
\* arguments; c, lastErr, obj: the candidate tryFetch is at, its lastErr and
\* its cachedObj; outcome, value: how the returned promise settled. The last
\* three fields are history, kept for the properties: whether idbGet and
\* idbSet failed, and how many candidates failed.
IdleLookup ==
  [ pc |-> "idle", suburb |-> <<>>, state |-> <<>>, force |-> FALSE,
    c |-> 0, lastErr |-> None, obj |-> None,
    outcome |-> "none", value |-> None,
    readFailed |-> FALSE, writeFailed |-> FALSE, failed |-> 0,
    waited |-> FALSE ]

QLD == <<"Q", "L", "D">>

\* The (suburb, state) pairs lookups are called with.
Inputs ==
  { [suburb |-> <<"A">>, state |-> QLD],
    [suburb |-> <<"A">>, state |-> toLowerCase(QLD)] }

\* The one pair the scheduler specification calls lookups with.
TaskInput == [suburb |-> <<"a">>, state |-> QLD]

\* The cache specification has one caller, which calls again after each
\* result.
Lookups == {1}

Tasks == 1..NumTasks

\* The instants the clock takes: 0, and the tick before and the tick of every
\* multiple of the TTL.
Instants ==
  {0} \cup { k * CACHE_TTL_MS + j : k \in 1..MaxPeriods, j \in {-1, 0} }

\* No synchronous call is under way.
NoCall == [pc |-> "none"]

\* The characters of the texts the synchronous functions are called with: a
\* space, letters of both cases, an ampersand, a dash, an accented capital,
\* a digit, a character the slug drops and a lone surrogate.
TextChars == {" ", "A", "a", "&", "-", "U+00C9", "1", "!"} \cup LoneSurrogates

\* The texts of at most n characters.
Texts(n) == UNION { [1..k -> TextChars] : k \in 0..n }

\* A page without listing cards.
NoPage == [cards |-> <<>>]

\* ------------------------------------------------------------------------
\* State
\* ------------------------------------------------------------------------

VARIABLES
  now,     \* Date.now()
  store,   \* the object store CACHE_STORE: key -> cached object
  idb,     \* IndexedDB requests issued and not completed, oldest first
  active,  \* let active
  queue,   \* const queue: the lookups whose tryFetch waits
  lk,      \* the calls of fetchSuburbGeoJSON
  sweep,   \* the call of cleanupCache
  calc,    \* the call of a synchronous function: its arguments, its result
  page     \* the listing cards, their badges and listeners

vars == <<now, store, idb, active, queue, lk, sweep, calc, page>>

\* The (suburb, state) pairs a lookup record can hold: the ones the
\* specifications call lookups with, and the one of a lookup not called.
LookupInputs ==
  Inputs \cup {TaskInput, [suburb |-> IdleLookup.suburb,
                           state |-> IdleLookup.state]}

\* The key and the candidate URLs of each of these pairs.
KeyTable == [in \in LookupInputs |-> CacheKey(in.suburb, in.state)]

UrlTable == [in \in LookupInputs |-> CandidateUrls(in.suburb, in.state)]

KeyOf(p) == KeyTable[[suburb |-> lk[p].suburb, state |-> lk[p].state]]

UrlsOf(p) == UrlTable[[suburb |-> lk[p].suburb, state |-> lk[p].state]]

\* cached.fetchedAt || 0
FetchedAtOrZero(e) == IF "fetchedAt" \in DOMAIN e THEN e.fetchedAt ELSE 0

\* ServedFromCache with `age <= CACHE_TTL_MS` for `age < CACHE_TTL_MS`.
ServedFromCache_Inclusive(key, force, st, t) ==
  /\ key \in DOMAIN st
  /\ ~force
  /\ t - FetchedAtOrZero(st[key]) <= CACHE_TTL_MS

\* ServedFromCache without the `!force` test.
ServedFromCache_IgnoresForce(key, force, st, t) ==
  /\ key \in DOMAIN st
  /\ t - FetchedAtOrZero(st[key]) < CACHE_TTL_MS

\* cached && !force && Date.now() - (cached.fetchedAt || 0) < CACHE_TTL_MS
ServedFromCache(key, force, st, t) ==
  /\ key \in DOMAIN st
  /\ ~force
  /\ t - FetchedAtOrZero(st[key]) < CACHE_TTL_MS

\* ------------------------------------------------------------------------
\* The scheduler: enqueue and processQueue
\* ------------------------------------------------------------------------

\* processQueue with `active > MAX_CONCURRENT_FETCHES` for `>=`.
processQueue_OffByOne(a, q, l) ==
  IF a > MAX_CONCURRENT_FETCHES THEN [active |-> a, queue |-> q, lk |-> l]
  ELSE IF q = <<>> THEN [active |-> a, queue |-> q, lk |-> l]
  ELSE [ active |-> a + 1,
         queue  |-> Tail(q),
         lk     |-> [l EXCEPT ![Head(q)].pc = "fetching", ![Head(q)].c = 1] ]

\* processQueue with queue.pop() for queue.shift(): the task queued last is
\* admitted.
processQueue_Pop(a, q, l) ==
  IF a >= MAX_CONCURRENT_FETCHES THEN [active |-> a, queue |-> q, lk |-> l]
  ELSE IF q = <<>> THEN [active |-> a, queue |-> q, lk |-> l]
  ELSE [ active |-> a + 1,
         queue  |-> SubSeq(q, 1, Len(q) - 1),
         lk     |-> [l EXCEPT ![q[Len(q)]].pc = "fetching",
                              ![q[Len(q)]].c = 1] ]

\* processQueue on (active, queue, lookups) = (a, q, l): admits the head of
\* the queue when a slot is free. item.fn() runs tryFetch up to its first
\* await, the fetch of the first candidate (the list is never empty).
processQueue(a, q, l) ==
  IF a >= MAX_CONCURRENT_FETCHES THEN [active |-> a, queue |-> q, lk |-> l]
  ELSE IF q = <<>> THEN [active |-> a, queue |-> q, lk |-> l]
  ELSE [ active |-> a + 1,
         queue  |-> Tail(q),
         lk     |-> [l EXCEPT ![Head(q)].pc = "fetching", ![Head(q)].c = 1] ]

\* enqueue without its call of processQueue: the task is pushed and waits
\* for the next settle.
enqueue_NoProcessQueue(p, a, q, l) ==
  [ active |-> a,
    queue  |-> Append(q, p),
    lk     |-> [l EXCEPT ![p].pc = "queued", ![p].waited = TRUE] ]

\* enqueue(tryFetch) of lookup p. (`waited` records that processQueue left
\* the task in the queue: history, kept for the properties.)
enqueue(p, a, q, l) ==
  LET r == processQueue(a, Append(q, p), [l EXCEPT ![p].pc = "queued"])
  IN  IF r.lk[p].pc = "queued"
      THEN [r EXCEPT !.lk = [r.lk EXCEPT ![p].waited = TRUE]]
      ELSE r

\* settle with a finally handler that only does `active--`: the slot is
\* released and the queue is not looked at.
settle_NoProcessQueue(p, outcome, value, a, q, l) ==
  [ active |-> a - 1,
    queue  |-> q,
    lk     |-> [l EXCEPT ![p].pc = "done", ![p].outcome = outcome,
                         ![p].value = value, ![p].c = 0,
                         ![p].lastErr = None, ![p].obj = None] ]

\* settle with `.then(() => { active--; processQueue(); })` for `.finally`:
\* a rejected task keeps its slot and admits nothing.
settle_ThenForFinally(p, outcome, value, a, q, l) ==
  LET done == [l EXCEPT ![p].pc = "done", ![p].outcome = outcome,
                        ![p].value = value, ![p].c = 0,
                        ![p].lastErr = None, ![p].obj = None]
  IN  IF outcome = "rejected"
      THEN [active |-> a, queue |-> q, lk |-> done]
      ELSE processQueue(a - 1, q, done)

\* The promise of item.fn() settles: item.resolve or item.reject, then the
\* finally handler (active--, processQueue()). tryFetch has returned or
\* thrown: its locals (the loop position, lastErr, cachedObj) are gone.
settle(p, outcome, value, a, q, l) ==
  processQueue(a - 1, q,
               [l EXCEPT ![p].pc = "done", ![p].outcome = outcome,
                         ![p].value = value, ![p].c = 0,
                         ![p].lastErr = None, ![p].obj = None])

\* ------------------------------------------------------------------------
\* fetchSuburbGeoJSON
\* ------------------------------------------------------------------------

\* fetchSuburbGeoJSON(suburb, state, force) up to its first await: idbGet(key)
\* has asked for a connection.
Call(p, in, force) ==
  /\ lk[p].pc = "idle"
  /\ lk' = [lk EXCEPT ![p] = [IdleLookup EXCEPT !.pc = "reading",
                                               !.suburb = in.suburb,
                                               !.state = in.state,
                                               !.force = force]]
  /\ idb' = Append(idb, [op |-> "get", p |-> p])
  /\ UNCHANGED <<now, store, active, queue, sweep, calc, page>>

\* idbGet resolves. A fresh entry is returned to the caller; otherwise the
\* lookup goes on to enqueue(tryFetch).
IdbGetOk ==
  /\ idb # <<>>
  /\ Head(idb).op = "get"
  /\ LET p == Head(idb).p
     IN  IF ServedFromCache(KeyOf(p), lk[p].force, store, now)
         THEN /\ lk' = [lk EXCEPT ![p].pc = "done", ![p].outcome = "cached",
                                  ![p].value = store[KeyOf(p)].data]
              /\ UNCHANGED <<active, queue>>
         ELSE LET r == enqueue(p, active, queue, lk)
              IN  /\ active' = r.active
                  /\ queue' = r.queue
                  /\ lk' = r.lk
  /\ idb' = Tail(idb)
  /\ UNCHANGED <<now, store, sweep, calc, page>>

\* IdbGetFail without the catch block of lines 156-158: the read error
\* rejects the lookup.
IdbGetFail_Rethrows ==
  /\ idb # <<>>
  /\ Head(idb).op = "get"
  /\ LET p == Head(idb).p
     IN  lk' = [lk EXCEPT ![p].readFailed = TRUE, ![p].pc = "done",
                          ![p].outcome = "rejected",
                          ![p].value = IdbError("get")]
  /\ idb' = Tail(idb)
  /\ UNCHANGED <<now, store, active, queue, sweep, calc, page>>

\* idbGet rejects (openDb or the request failed): the catch block warns and
\* the lookup goes on to enqueue(tryFetch).
IdbGetFail ==
  /\ idb # <<>>
  /\ Head(idb).op = "get"
  /\ LET p == Head(idb).p
         r == enqueue(p, active, queue, [lk EXCEPT ![p].readFailed = TRUE])
     IN  /\ active' = r.active
         /\ queue' = r.queue
         /\ lk' = r.lk
  /\ idb' = Tail(idb)
  /\ UNCHANGED <<now, store, sweep, calc, page>>

\* NextCandidate with `lastErr = lastErr || err` for `lastErr = err`.
NextCandidate_KeepsFirstErr(p, err) ==
  LET kept == IF lk[p].lastErr = None THEN err ELSE lk[p].lastErr
  IN  IF lk[p].c < Len(UrlsOf(p))
      THEN /\ lk' = [lk EXCEPT ![p].c = @ + 1, ![p].lastErr = kept,
                               ![p].failed = @ + 1]
           /\ UNCHANGED <<active, queue>>
      ELSE LET r == settle(p, "rejected", kept, active, queue,
                           [lk EXCEPT ![p].lastErr = kept, ![p].failed = @ + 1])
           IN  /\ active' = r.active
               /\ queue' = r.queue
               /\ lk' = r.lk

\* The rest of the loop after candidate c of lookup p failed with err:
\* the next candidate is fetched, or tryFetch throws lastErr.
NextCandidate(p, err) ==
  IF lk[p].c < Len(UrlsOf(p))
  THEN /\ lk' = [lk EXCEPT ![p].c = @ + 1, ![p].lastErr = err,
                           ![p].failed = @ + 1]
       /\ UNCHANGED <<active, queue>>
  ELSE LET thrown == IF err = None THEN NoCandidateError ELSE err
           r == settle(p, "rejected", thrown, active, queue,
                       [lk EXCEPT ![p].lastErr = err, ![p].failed = @ + 1])
       IN  /\ active' = r.active
           /\ queue' = r.queue
           /\ lk' = r.lk

\* StoreFetched with a put that is applied before the requests that are
\* waiting, whenever they were made.
StoreFetched_PutOvertakes(p, data) ==
  /\ lk' = [lk EXCEPT ![p].pc = "writing",
                      ![p].obj = [ fetchedAt   |-> now,
                                   generatedAt |-> GeneratedAt(data),
                                   source      |-> UrlsOf(p)[lk[p].c],
                                   data        |-> data ]]
  /\ idb' = <<[op |-> "put", p |-> p]>> \o idb
  /\ UNCHANGED <<active, queue>>

\* StoreFetched with `source: candidates[0]` for `source: url`.
StoreFetched_SourceFirst(p, data) ==
  /\ lk' = [lk EXCEPT ![p].pc = "writing",
                      ![p].obj = [ fetchedAt   |-> now,
                                   generatedAt |-> GeneratedAt(data),
                                   source      |-> UrlsOf(p)[1],
                                   data        |-> data ]]
  /\ idb' = Append(idb, [op |-> "put", p |-> p])
  /\ UNCHANGED <<active, queue>>

\* The body of a 200 answer parsed to data: the cached object is built and
\* idbSet(key, cachedObj) asks for a connection.
StoreFetched(p, data) ==
  /\ lk' = [lk EXCEPT ![p].pc = "writing",
                      ![p].obj = [ fetchedAt   |-> now,
                                   generatedAt |-> GeneratedAt(data),
                                   source      |-> UrlsOf(p)[lk[p].c],
                                   data        |-> data ]]
  /\ idb' = Append(idb, [op |-> "put", p |-> p])
  /\ UNCHANGED <<active, queue>>

\* FetchDone with a cache that forgets on failure: an HTTP error of a
\* candidate deletes the entry of the key.
FetchDone_ForgetsOnError(p, resp) ==
  /\ lk[p].pc = "fetching"
  /\ LET url == UrlsOf(p)[lk[p].c]
     IN  CASE resp = "ok_fc" ->
                StoreFetched(p, Payload(url, "fc")) /\ UNCHANGED store
           [] resp = "ok_other" ->
                StoreFetched(p, Payload(url, "other")) /\ UNCHANGED store
           [] resp = "ok_null" ->
                /\ NextCandidate(p, FetchError(url, "type"))
                /\ UNCHANGED <<idb, store>>
           [] resp = "ok_badjson" ->
                /\ NextCandidate(p, FetchError(url, "syntax"))
                /\ UNCHANGED <<idb, store>>
           [] resp = "http_error" ->
                /\ NextCandidate(p, FetchError(url, "http"))
                /\ store' = [k \in DOMAIN store \ {KeyOf(p)} |-> store[k]]
                /\ UNCHANGED idb
           [] resp = "net_error" ->
                /\ NextCandidate(p, FetchError(url, "network"))
                /\ UNCHANGED <<idb, store>>
  /\ UNCHANGED <<now, sweep, calc, page>>

\* The fetch of the current candidate of lookup p completes with resp.
FetchDone(p, resp) ==
  /\ lk[p].pc = "fetching"
  /\ LET url == UrlsOf(p)[lk[p].c]
     IN  CASE resp = "ok_fc" -> StoreFetched(p, Payload(url, "fc"))
           [] resp = "ok_other" -> StoreFetched(p, Payload(url, "other"))
           [] resp = "ok_null" ->
                NextCandidate(p, FetchError(url, "type")) /\ UNCHANGED idb
           [] resp = "ok_badjson" ->
                NextCandidate(p, FetchError(url, "syntax")) /\ UNCHANGED idb
           [] resp = "http_error" ->
                NextCandidate(p, FetchError(url, "http")) /\ UNCHANGED idb
           [] resp = "net_error" ->
                NextCandidate(p, FetchError(url, "network")) /\ UNCHANGED idb
  /\ UNCHANGED <<now, store, sweep, calc, page>>

\* IdbSetOk with a put that merges into the entry the store holds (its
\* fetchedAt is kept) for a put that replaces it.
IdbSetOk_MergesEntry ==
  /\ idb # <<>>
  /\ Head(idb).op = "put"
  /\ LET p == Head(idb).p
         r == settle(p, "resolved", lk[p].obj.data, active, queue, lk)
         merged == IF KeyOf(p) \in DOMAIN store
                   THEN [lk[p].obj EXCEPT
                           !.fetchedAt = store[KeyOf(p)].fetchedAt]
                   ELSE lk[p].obj
     IN  /\ store' = (KeyOf(p) :> merged) @@ store
         /\ active' = r.active
         /\ queue' = r.queue
         /\ lk' = r.lk
  /\ idb' = Tail(idb)
  /\ UNCHANGED <<now, sweep, calc, page>>

\* The put of idbSet is applied, tryFetch returns data and the task settles.
IdbSetOk ==
  /\ idb # <<>>
  /\ Head(idb).op = "put"
  /\ LET p == Head(idb).p
         r == settle(p, "resolved", lk[p].obj.data, active, queue, lk)
     IN  /\ store' = (KeyOf(p) :> lk[p].obj) @@ store
         /\ active' = r.active
         /\ queue' = r.queue
         /\ lk' = r.lk
  /\ idb' = Tail(idb)
  /\ UNCHANGED <<now, sweep, calc, page>>

\* IdbSetFail without the inner catch of line 175: the write error reaches
\* the catch of line 177 and the loop goes on to the next candidate.
IdbSetFail_NotCaught ==
  /\ idb # <<>>
  /\ Head(idb).op = "put"
  /\ LET p == Head(idb).p
         l == [lk EXCEPT ![p].writeFailed = TRUE, ![p].pc = "fetching",
                         ![p].obj = None]
     IN  IF lk[p].c < Len(UrlsOf(p))
         THEN /\ lk' = [l EXCEPT ![p].c = @ + 1,
                                 ![p].lastErr = IdbError("put")]
              /\ UNCHANGED <<active, queue>>
         ELSE LET r == settle(p, "rejected", IdbError("put"), active, queue, l)
              IN  /\ active' = r.active
                  /\ queue' = r.queue
                  /\ lk' = r.lk
  /\ idb' = Tail(idb)
  /\ UNCHANGED <<now, store, sweep, calc, page>>

\* idbSet rejects: the catch block warns, tryFetch returns data all the same.
IdbSetFail ==
  /\ idb # <<>>
  /\ Head(idb).op = "put"
  /\ LET p == Head(idb).p
         r == settle(p, "resolved", lk[p].obj.data, active, queue,
                     [lk EXCEPT ![p].writeFailed = TRUE])
     IN  /\ active' = r.active
         /\ queue' = r.queue
         /\ lk' = r.lk
  /\ idb' = Tail(idb)
  /\ UNCHANGED <<now, store, sweep, calc, page>>

\* The caller has taken the result of lookup p; p stands for a later call.
Return(p) ==
  /\ lk[p].pc = "done"
  /\ lk' = [lk EXCEPT ![p] = IdleLookup]
  /\ UNCHANGED <<now, store, idb, active, queue, sweep, calc, page>>

\* Time passes.
Tick ==
  /\ \E t \in Instants : t > now /\ now' = t
  /\ UNCHANGED <<store, idb, active, queue, lk, sweep, calc, page>>

\* ------------------------------------------------------------------------
\* cleanupCache
\* ------------------------------------------------------------------------

\* The UTF-16 code unit of a character: IndexedDB orders string keys by it.
CharCode ==
  [ c \in LowerChars \cup UpperChars \cup DigitChars \cup {"|", "-"} |->
      IF c \in LowerChars THEN 96 + LetterIndex(c, LowerLetters)
      ELSE IF c \in UpperChars THEN 64 + LetterIndex(c, UpperLetters)
      ELSE CASE c = "-" -> 45
             [] c = "0" -> 48 [] c = "1" -> 49 [] c = "2" -> 50
             [] c = "3" -> 51 [] c = "4" -> 52 [] c = "5" -> 53
             [] c = "6" -> 54 [] c = "7" -> 55 [] c = "8" -> 56
             [] c = "9" -> 57
             [] c = "|" -> 124 ]

RECURSIVE KeyLessFrom(_, _, _)
KeyLessFrom(a, b, i) ==
  IF i > Len(b) THEN FALSE
  ELSE IF i > Len(a) THEN TRUE
  ELSE IF a[i] = b[i] THEN KeyLessFrom(a, b, i + 1)
  ELSE CharCode[a[i]] < CharCode[b[i]]

\* The order in which store.openCursor() visits the keys.
KeyLess(a, b) == KeyLessFrom(a, b, 1)

\* SortsBefore with the comparator's operands exchanged (newest first).
SortsBefore_Descending(st, a, b) ==
  FetchedAtOrZero(st[b]) < FetchedAtOrZero(st[a])

\* The comparator of entries.sort:
\* (a.value.fetchedAt || 0) - (b.value.fetchedAt || 0), negative.
SortsBefore(st, a, b) == FetchedAtOrZero(st[a]) < FetchedAtOrZero(st[b])

\* The place (from 0) of key k in `entries` after the cursor has pushed every
\* entry, in key order, and entries.sort has run: Array.prototype.sort is
\* stable, so k follows the entries that sort before it and those that
\* compare equal to it and were pushed earlier.
SortedPlace(st, k) ==
  Cardinality({ j \in DOMAIN st :
                  \/ SortsBefore(st, j, k)
                  \/ /\ ~SortsBefore(st, k, j)
                     /\ KeyLess(j, k) })

\* The keys of `entries` after entries.sort. (The places are bound once, as
\* the one element of a set, so that they are not computed again per entry.)
SortedEntries(st) ==
  CHOOSE entries \in
    { [ i \in 1..Cardinality(DOMAIN st) |->
          CHOOSE k \in DOMAIN st : place[k] = i - 1 ] :
      place \in { [ k \in DOMAIN st |-> SortedPlace(st, k) ] } } : TRUE

\* Array.prototype.slice(from, to) for 0 <= from: elements from .. to - 1.
Slice(seq, from, to) ==
  SubSeq(seq, from + 1, IF to > Len(seq) THEN Len(seq) ELSE to)

\* toDeleteOf with entries.slice(0, excessCount): the excess is counted from
\* the start of the sorted entries, the expired ones included.
toDeleteOf_SliceFromZero(st, t, entries) ==
  LET expired ==
        SelectSeq(entries,
                  LAMBDA k : t - FetchedAtOrZero(st[k]) > CACHE_EXPIRY_MS)
      excessCount == Len(entries) - Len(expired) - CACHE_MAX_ENTRIES
  IN  IF excessCount > 0
      THEN expired \o Slice(entries, 0, excessCount)
      ELSE expired

\* The keys cleanupCache deletes from store st at time t.
toDeleteOf(st, t, entries) ==
  LET expired ==
        SelectSeq(entries,
                  LAMBDA k : t - FetchedAtOrZero(st[k]) > CACHE_EXPIRY_MS)
      excessCount == Len(entries) - Len(expired) - CACHE_MAX_ENTRIES
  IN  IF excessCount > 0
      THEN expired \o Slice(entries, Len(expired), Len(expired) + excessCount)
      ELSE expired

toDelete(st, t) ==
  CHOOSE del \in { toDeleteOf(st, t, entries) :
                     entries \in {SortedEntries(st)} } : TRUE

\* cleanupCache() up to `await openDb()`.
StartSweep ==
  /\ sweep.pc = "idle"
  /\ sweep' = [pc |-> "pending"]
  /\ idb' = Append(idb, [op |-> "sweep"])
  /\ UNCHANGED <<now, store, active, queue, lk, calc, page>>

\* The readwrite transaction of cleanupCache: the cursor reads every entry,
\* the deletes are requested in the last cursor callback and applied before
\* the transaction completes. sweep.now is the `now` of the sweep and
\* sweep.before the store it read (history, kept for the properties).
SweepRun ==
  /\ idb # <<>>
  /\ Head(idb).op = "sweep"
  /\ \E del \in {toDelete(store, now)} :
       \E gone \in {{ del[i] : i \in 1..Len(del) }} :
         /\ store' = [ k \in DOMAIN store \ gone |-> store[k] ]
         /\ sweep' = [pc |-> "done", now |-> now, before |-> store]
  /\ idb' = Tail(idb)
  /\ UNCHANGED <<now, active, queue, lk, calc, page>>

\* SweepScan with the transaction of cleanupCache completing once the cursor
\* is exhausted: the deletes are made in a transaction of their own, behind
\* every request that is waiting by then.
SweepScan_ReleasesTransaction ==
  /\ idb # <<>>
  /\ Head(idb).op = "sweep"
  /\ sweep.pc = "pending"
  /\ sweep' = [pc |-> "scanned", now |-> now, before |-> store,
               del |-> toDelete(store, now)]
  /\ idb' = Append(Tail(idb), [op |-> "sweep"])
  /\ UNCHANGED <<now, store, active, queue, lk, calc, page>>

\* The first part of SweepRun, for the specifications in which lookups run
\* beside the sweep: the cursor callbacks up to the last one, which sorts,
\* builds toDelete (sweep.del) and requests the deletes. The readwrite
\* transaction stays open, at the head of the requests: IndexedDB starts no
\* later transaction on the store before it completes.
SweepScan ==
  /\ idb # <<>>
  /\ Head(idb).op = "sweep"
  /\ sweep.pc = "pending"
  /\ sweep' = [pc |-> "scanned", now |-> now, before |-> store,
               del |-> toDelete(store, now)]
  /\ UNCHANGED <<now, store, idb, active, queue, lk, calc, page>>

\* The second part of SweepRun: the deletes are applied and the transaction
\* completes. sweep.waiting: the keys of the puts that were waiting behind
\* it (history, kept for the properties).
SweepDelete ==
  /\ idb # <<>>
  /\ Head(idb).op = "sweep"
  /\ sweep.pc = "scanned"
  /\ \E gone \in {{ sweep.del[i] : i \in 1..Len(sweep.del) }} :
       /\ store' = [ k \in DOMAIN store \ gone |-> store[k] ]
       /\ sweep' = [ pc      |-> "done",
                     now     |-> sweep.now,
                     before  |-> sweep.before,
                     del     |-> gone,
                     waiting |-> { KeyOf(idb[i].p) :
                                     i \in { j \in 2..Len(idb) :
                                               idb[j].op = "put" } } ]
  /\ idb' = Tail(idb)
  /\ UNCHANGED <<now, active, queue, lk, calc, page>>

\* openDb rejects: cleanupCache warns and rejects, nothing is deleted.
SweepFail ==
  /\ idb # <<>>
  /\ Head(idb).op = "sweep"
  /\ sweep' = [pc |-> "failed"]
  /\ idb' = Tail(idb)
  /\ UNCHANGED <<now, store, active, queue, lk, calc, page>>

\* ------------------------------------------------------------------------
\* Specifications
\* ------------------------------------------------------------------------

Init ==
  /\ now = 0
  /\ store = <<>>
  /\ idb = <<>>
  /\ active = 0
  /\ queue = <<>>
  /\ lk = [p \in Lookups \cup Tasks |-> IdleLookup]
  /\ sweep = [pc |-> "idle"]
  /\ calc = NoCall
  /\ page = NoPage

\* The cache specification: lookups of any input one after the other, forced
\* or not, any answer of the remote side, any failure of IndexedDB, time
\* passing.
Next ==
  \/ \E p \in Lookups, in \in Inputs, force \in BOOLEAN : Call(p, in, force)
  \/ IdbGetOk
  \/ IdbGetFail
  \/ \E p \in Lookups, resp \in Responses : FetchDone(p, resp)
  \/ IdbSetOk
  \/ IdbSetFail
  \/ \E p \in Lookups : Return(p)
  \/ Tick

Spec == Init /\ [][Next]_vars

\* The scheduler specification: NumTasks overlapping forced lookups of one
\* suburb, each candidate answered by a feature collection or an HTTP error.
\* The lookups are interchangeable, so they are called in the order of their
\* numbers.
NextSched ==
  \/ \E p \in Tasks :
       /\ IF p = 1 THEN TRUE ELSE lk[p - 1].pc # "idle"
       /\ Call(p, TaskInput, TRUE)
  \/ IdbGetOk
  \/ \E p \in Tasks, resp \in {"ok_fc", "http_error"} : FetchDone(p, resp)
  \/ IdbSetOk

SpecSched == Init /\ [][NextSched]_vars

\* The scheduler specification with completion: LiveTasks overlapping
\* forced lookups of one suburb, each candidate answered by a feature
\* collection or an HTTP error, each cache write applied or failing; every
\* fetch and every IndexedDB request that is under way completes in the end,
\* one way or the other.
LiveLookups == 1..LiveTasks

NextSchedLive ==
  \/ \E p \in LiveLookups :
       /\ IF p = 1 THEN TRUE ELSE lk[p - 1].pc # "idle"
       /\ Call(p, TaskInput, TRUE)
  \/ IdbGetOk
  \/ \E p \in LiveLookups, resp \in {"ok_fc", "http_error"} :
       FetchDone(p, resp)
  \/ IdbSetOk
  \/ IdbSetFail

Completion ==
  /\ \A p \in LiveLookups :
       WF_vars(\E resp \in {"ok_fc", "http_error"} : FetchDone(p, resp))
  /\ WF_vars(IdbGetOk)
  /\ WF_vars(IdbSetOk \/ IdbSetFail)

SpecSchedLive == Init /\ [][NextSchedLive]_vars /\ Completion

\* The sweep specification: cleanupCache on a store left by earlier sessions.
\* The store holds n entries written by tryFetch for the suburbs "001",
\* "002", ... of QLD; the fetch times follow the key order (stride 1), the
\* opposite order (stride MaxEntries) or neither (stride 3); the `cut` oldest
\* are past the expiry horizon by a tick or more, the others are 0 to
\* 28 days old, 28 days being the horizon itself.
SweepEpoch == 2 * CACHE_EXPIRY_MS

DigitOf(d) == CHOOSE c \in DigitChars : CharCode[c] = 48 + d

SeedSuburb(i) == <<DigitOf(i \div 100), DigitOf((i \div 10) % 10), DigitOf(i % 10)>>

SeedAge(i, stride, cut) ==
  LET r == (i * stride) % (MaxEntries + 1)
  IN  IF r <= cut
      THEN CACHE_EXPIRY_MS + 1 + (r % 3) * Day
      ELSE ((r - cut - 1) % 29) * Day

SeedEntry(i, stride, cut) ==
  LET url == CandidateUrls(SeedSuburb(i), QLD)[1]
      data == Payload(url, "fc")
  IN  [ fetchedAt   |-> SweepEpoch - SeedAge(i, stride, cut),
        generatedAt |-> GeneratedAt(data),
        source      |-> url,
        data        |-> data ]

RECURSIVE SeedStore(_, _, _)
SeedStore(n, stride, cut) ==
  IF n = 0 THEN <<>>
  ELSE (CacheKey(SeedSuburb(n), QLD) :> SeedEntry(n, stride, cut))
         @@ SeedStore(n - 1, stride, cut)

InitSweep ==
  /\ now = SweepEpoch
  /\ \E n \in 0..MaxEntries, stride \in {1, 3, MaxEntries}, cut \in 0..MaxExpired :
       store = SeedStore(n, stride, cut)
  /\ idb = <<>>
  /\ active = 0
  /\ queue = <<>>
  /\ lk = [p \in Lookups \cup Tasks |-> IdleLookup]
  /\ sweep = [pc |-> "idle"]
  /\ calc = NoCall
  /\ page = NoPage

NextSweep ==
  \/ StartSweep
  \/ SweepRun
  \/ SweepFail

SpecSweep == InitSweep /\ [][NextSweep]_vars

\* The overlap specification: two lookups, forced or not, of the same or of
\* different keys, called once each and in flight together or one after the
\* other, each candidate answered by a payload or an HTTP error, time
\* passing.
Overlapping == {1, 2}

NextOverlap ==
  \/ \E p \in Overlapping, in \in Inputs, force \in BOOLEAN :
       /\ IF p = 1 THEN TRUE ELSE lk[p - 1].pc # "idle"
       /\ Call(p, in, force)
  \/ IdbGetOk
  \/ \E p \in Overlapping, resp \in {"ok_fc", "ok_other", "http_error"} :
       FetchDone(p, resp)
  \/ IdbSetOk
  \/ Tick

SpecOverlap == Init /\ [][NextOverlap]_vars

\* The sweep-beside-lookups specification: cleanupCache called once, as the
\* startup timer does, while two lookups are called, forced or not, before,
\* during or after it. The store of the earlier sessions is empty, or holds
\* the entry of the lookups' key, fresh, past the TTL or past the expiry
\* horizon.
SweptKey == CacheKey(<<"A">>, QLD)

SweptEntry(age) ==
  LET url  == CandidateUrls(<<"A">>, QLD)[1]
      data == Payload(url, "fc")
  IN  [ fetchedAt   |-> SweepEpoch - age,
        generatedAt |-> GeneratedAt(data),
        source      |-> url,
        data        |-> data ]

InitSweepLookups ==
  /\ now = SweepEpoch
  /\ \/ store = <<>>
     \/ \E age \in {0, CACHE_TTL_MS + 1, CACHE_EXPIRY_MS + 1} :
          store = SweptKey :> SweptEntry(age)
  /\ idb = <<>>
  /\ active = 0
  /\ queue = <<>>
  /\ lk = [p \in Lookups \cup Tasks |-> IdleLookup]
  /\ sweep = [pc |-> "idle"]
  /\ calc = NoCall
  /\ page = NoPage

NextSweepLookups ==
  \/ \E p \in Overlapping, in \in Inputs, force \in BOOLEAN :
       /\ IF p = 1 THEN TRUE ELSE lk[p - 1].pc # "idle"
       /\ Call(p, in, force)
  \/ IdbGetOk
  \/ \E p \in Overlapping, resp \in {"ok_fc", "http_error"} :
       FetchDone(p, resp)
  \/ IdbSetOk
  \/ StartSweep
  \/ SweepScan
  \/ SweepDelete

SpecSweepLookups == InitSweepLookups /\ [][NextSweepLookups]_vars

\* The slug specification: toRepoSlug called with any text of at most MaxLen
\* characters, and called again with what it returned.
SlugReturns ==
  /\ calc.pc = "called"
  /\ calc.fn = "toRepoSlug"
  /\ calc' = [calc EXCEPT !.pc = "returned",
                          !.result = toRepoSlug(calc.args[1])]
  /\ UNCHANGED <<now, store, idb, active, queue, lk, sweep, page>>

SlugAgain ==
  /\ calc.pc = "returned"
  /\ calc.fn = "toRepoSlug"
  /\ calc' = [pc |-> "called", fn |-> "toRepoSlug",
              args |-> <<calc.result>>, result |-> Undefined]
  /\ UNCHANGED <<now, store, idb, active, queue, lk, sweep, page>>

InitSlug ==
  /\ now = 0
  /\ store = <<>>
  /\ idb = <<>>
  /\ active = 0
  /\ queue = <<>>
  /\ lk = [p \in Lookups \cup Tasks |-> IdleLookup]
  /\ sweep = [pc |-> "idle"]
  /\ \E t \in Texts(MaxLen) :
       calc = [pc |-> "called", fn |-> "toRepoSlug", args |-> <<t>>,
               result |-> Undefined]
  /\ page = NoPage

NextSlug ==
  \/ SlugReturns
  \/ SlugAgain

SpecSlug == InitSlug /\ [][NextSlug]_vars

\* The candidates specification: candidateFilenames called with any text of
\* at most MaxLen characters or no suburb, and a state in either case, empty
\* or missing.
CandidatesReturn ==
  /\ calc.pc = "called"
  /\ calc.fn = "candidateFilenames"
  /\ calc' =
       IF candidateFilenamesThrows(calc.args[1], calc.args[2])
       THEN [calc EXCEPT !.pc = "threw", !.result = <<"URIError">>]
       ELSE [calc EXCEPT !.pc = "returned",
                         !.result = candidateFilenames(calc.args[1],
                                                       calc.args[2])]
  /\ UNCHANGED <<now, store, idb, active, queue, lk, sweep, page>>

InitCandidates ==
  /\ now = 0
  /\ store = <<>>
  /\ idb = <<>>
  /\ active = 0
  /\ queue = <<>>
  /\ lk = [p \in Lookups \cup Tasks |-> IdleLookup]
  /\ sweep = [pc |-> "idle"]
  /\ \E suburb \in Texts(MaxLen) \cup {Undefined},
        state \in {QLD, toLowerCase(QLD), <<>>, Undefined} :
       calc = [pc |-> "called", fn |-> "candidateFilenames",
               args |-> <<suburb, state>>, result |-> Undefined]
  /\ page = NoPage

NextCandidates == CandidatesReturn

SpecCandidates == InitCandidates /\ [][NextCandidates]_vars

\* The match specification: a listing's street text looked up in the index
\* of a feature collection, as processCard does.
MatchReturns ==
  /\ calc.pc = "called"
  /\ calc.fn = "matchAddress"
  /\ LET addressIndex == indexGeojsonAddresses(calc.args[1])
     IN  calc' = [calc EXCEPT
                    !.pc = "returned",
                    !.result = matchListingAddressToFeature(calc.args[2],
                                                            addressIndex)]
  /\ UNCHANGED <<now, store, idb, active, queue, lk, sweep, page>>

InitMatch ==
  /\ now = 0
  /\ store = <<>>
  /\ idb = <<>>
  /\ active = 0
  /\ queue = <<>>
  /\ lk = [p \in Lookups \cup Tasks |-> IdleLookup]
  /\ sweep = [pc |-> "idle"]
  /\ \E geojson \in Collections(MaxFeatures) \cup {Null}, street \in Streets :
       calc = [pc |-> "called", fn |-> "matchAddress",
               args |-> <<geojson, street>>, result |-> Undefined]
  /\ page = NoPage

NextMatch == MatchReturns

SpecMatch == InitMatch /\ [][NextMatch]_vars

\* The summary specification: summarizeGeoJSON called with a feature
\* collection of at most MaxFeatures features, or with null.
SummaryReturns ==
  /\ calc.pc = "called"
  /\ calc.fn = "summarizeGeoJSON"
  /\ calc' = [calc EXCEPT !.pc = "returned",
                          !.result = summarizeGeoJSON(calc.args[1])]
  /\ UNCHANGED <<now, store, idb, active, queue, lk, sweep, page>>

InitSummary ==
  /\ now = 0
  /\ store = <<>>
  /\ idb = <<>>
  /\ active = 0
  /\ queue = <<>>
  /\ lk = [p \in Lookups \cup Tasks |-> IdleLookup]
  /\ sweep = [pc |-> "idle"]
  /\ \E geojson \in Collections(MaxFeatures) \cup {Null} :
       calc = [pc |-> "called", fn |-> "summarizeGeoJSON",
               args |-> <<geojson>>, result |-> Undefined]
  /\ page = NoPage

NextSummary == SummaryReturns

SpecSummary == InitSummary /\ [][NextSummary]_vars

\* ------------------------------------------------------------------------
\* Listing cards and their badges
\* ------------------------------------------------------------------------
\* A card processCard has not been called with.
AbsentCard ==
  [ pc |-> "absent", suburb |-> <<>>, state |-> <<>>, shown |-> 0,
    armed |-> FALSE, refreshing |-> FALSE ]

Cards == 1..MaxCards

\* The (suburb, state) pairs parseSuburbStateFromListing finds on the cards.
CardInputs ==
  { [suburb |-> <<"A">>, state |-> QLD], [suburb |-> <<"B">>, state |-> QLD] }

\* processCard(card) up to `await fetchSuburbGeoJSON(suburb, state)`.
ProcessCard(c, in) ==
  /\ page.cards[c].pc = "absent"
  /\ page' = [page EXCEPT !.cards[c].pc = "loading",
                          !.cards[c].suburb = in.suburb,
                          !.cards[c].state = toUpperCase(in.state)]
  /\ UNCHANGED <<now, store, idb, active, queue, lk, sweep, calc>>

\* The lookup of processCard settles. Resolved: the badge shows the summary
\* of the data the cache holds (page.version numbers the data of the
\* refreshes) and onRefreshed is registered, once. Rejected: the grey
\* 'NBN: unknown' badge, no listener.
CardLoaded(c, ok) ==
  /\ page.cards[c].pc = "loading"
  /\ page' = IF ok
             THEN [page EXCEPT !.cards[c].pc = "badged",
                               !.cards[c].shown = page.version,
                               !.cards[c].armed = TRUE]
             ELSE [page EXCEPT !.cards[c].pc = "unknown"]
  /\ UNCHANGED <<now, store, idb, active, queue, lk, sweep, calc>>

\* 'Refresh cache' is clicked in the popup of the badge of card c: the
\* handler up to `await fetchSuburbGeoJSON(..., true)`.
RefreshClick(c) ==
  /\ page.cards[c].pc = "badged"
  /\ ~page.cards[c].refreshing
  /\ page.version < MaxRefreshes
  /\ page' = [page EXCEPT !.cards[c].refreshing = TRUE]
  /\ UNCHANGED <<now, store, idb, active, queue, lk, sweep, calc>>

\* The cards after window.dispatchEvent of a refresh of (suburb, state) with
\* the summary numbered v: every registered onRefreshed runs and is removed
\* ({ once: true }); the ones of that suburb and state replace their badge.
dispatchRefreshed(cards, suburb, state, v) ==
  [ d \in DOMAIN cards |->
      IF ~cards[d].armed THEN cards[d]
      ELSE IF cards[d].suburb = suburb /\ cards[d].state = state
      THEN [cards[d] EXCEPT !.armed = FALSE, !.shown = v]
      ELSE [cards[d] EXCEPT !.armed = FALSE] ]

\* The forced lookup of the refresh handler of card c settles. Resolved: the
\* event is dispatched with the new summary (page.ev: the last event,
\* history kept for the properties). Rejected: 'Refresh failed'.
RefreshDone(c, ok) ==
  /\ page.cards[c].refreshing
  /\ IF ok
     THEN \E v \in {page.version + 1} :
            page' = [ cards   |-> [ dispatchRefreshed(page.cards,
                                                      page.cards[c].suburb,
                                                      page.cards[c].state, v)
                                    EXCEPT ![c].refreshing = FALSE ],
                      version |-> v,
                      ev      |-> [ suburb  |-> page.cards[c].suburb,
                                    state   |-> page.cards[c].state,
                                    summary |-> v,
                                    badged  |-> { d \in Cards :
                                                   page.cards[d].pc = "badged" },
                                    armed   |-> { d \in Cards :
                                                   page.cards[d].armed } ] ]
     ELSE page' = [page EXCEPT !.cards[c].refreshing = FALSE]
  /\ UNCHANGED <<now, store, idb, active, queue, lk, sweep, calc>>

\* The page specification: the cards of a results page are processed, their
\* lookups resolve or reject, and their badges are refreshed, at most
\* MaxRefreshes times with success.
InitPage ==
  /\ now = 0
  /\ store = <<>>
  /\ idb = <<>>
  /\ active = 0
  /\ queue = <<>>
  /\ lk = [p \in Lookups \cup Tasks |-> IdleLookup]
  /\ sweep = [pc |-> "idle"]
  /\ calc = NoCall
  /\ page = [cards |-> [c \in Cards |-> AbsentCard], version |-> 0, ev |-> None]

NextPage ==
  \/ \E c \in Cards, in \in CardInputs : ProcessCard(c, in)
  \/ \E c \in Cards, ok \in BOOLEAN : CardLoaded(c, ok)
  \/ \E c \in Cards : RefreshClick(c)
  \/ \E c \in Cards, ok \in BOOLEAN : RefreshDone(c, ok)

SpecPage == InitPage /\ [][NextPage]_vars

\* A step of any operation of the script.
AnyStep == Next \/ NextSweep


\* ------------------------------------------------------------------------
\* Properties
\* ------------------------------------------------------------------------

\* The lookups whose tryFetch has been admitted and has not settled.
Admitted == { p \in DOMAIN lk : lk[p].pc \in {"fetching", "writing"} }

\* The lookups with a network fetch in flight.
Fetching == { p \in DOMAIN lk : lk[p].pc = "fetching" }

\* The kinds of error a failed candidate leaves in lastErr.
CandidateErrorKinds == {"http", "network", "syntax", "type"}

\* C1: the counter `active` never exceeds MAX_CONCURRENT_FETCHES, and neither
\* does the number of admitted, unsettled tasks nor the number of lookups
\* with a network fetch in flight.
C1_AtMostMaxConcurrentFetches ==
  /\ active <= MAX_CONCURRENT_FETCHES
  /\ Cardinality(Admitted) <= MAX_CONCURRENT_FETCHES
  /\ Cardinality(Fetching) <= MAX_CONCURRENT_FETCHES

\* C1, its case: every slot is taken by a fetch in flight and a task waits.
C1_Witness ==
  /\ Cardinality(Fetching) = MAX_CONCURRENT_FETCHES
  /\ queue # <<>>

\* Lookup p is not forced and this step is its idbGet resolving with an entry.
ReadFindsEntry(p) ==
  /\ lk[p].pc = "reading"
  /\ lk'[p].pc # "reading"
  /\ ~lk'[p].readFailed
  /\ ~lk[p].force
  /\ KeyOf(p) \in DOMAIN store

\* C2: when the cache read of a non-forced lookup finds an entry, an entry
\* younger than CACHE_TTL_MS is returned as it is, nothing is enqueued, no
\* slot is taken and no fetch made; an entry of age CACHE_TTL_MS or more
\* sends the lookup to the scheduler.
C2_FreshServedStaleFetched ==
  [][ \A p \in Lookups :
        ReadFindsEntry(p) =>
          IF now - store[KeyOf(p)].fetchedAt < CACHE_TTL_MS
          THEN /\ lk'[p].pc = "done"
               /\ lk'[p].outcome = "cached"
               /\ lk'[p].value = store[KeyOf(p)].data
               /\ lk'[p].failed = 0
               /\ queue' = queue
               /\ active' = active
               /\ Fetching' = Fetching
          ELSE /\ lk'[p].pc \in {"queued", "fetching"}
               /\ p \in Fetching' \/ \E i \in 1..Len(queue') : queue'[i] = p
    ]_vars

\* C2, its case: an entry one tick short of the TTL has been served.
C2_Witness ==
  \E p \in Lookups :
    /\ lk[p].pc = "done"
    /\ lk[p].outcome = "cached"
    /\ KeyOf(p) \in DOMAIN store
    /\ now - store[KeyOf(p)].fetchedAt = CACHE_TTL_MS - 1

\* This step settles the promise of lookup p.
Finishes(p) == lk[p].pc # "done" /\ lk'[p].pc = "done"

\* C3 as claimed: a forced lookup never finishes without having overwritten
\* the entry of its key with the object it built.
C3_ForcedAlwaysOverwrites ==
  [][ \A p \in Lookups :
        (lk[p].force /\ Finishes(p)) =>
          /\ lk[p].pc = "writing"
          /\ KeyOf(p) \in DOMAIN store'
          /\ store'[KeyOf(p)] = lk[p].obj
    ]_vars

\* C3, amended: a forced lookup is never answered from the cache, its read
\* always sends it to the scheduler; when it finishes after a candidate
\* succeeded and the cache write succeeded, the entry of its key is the
\* object it built (fetchedAt: the time the answer was handled); when every
\* candidate failed or the write failed, the store is left as it was.
C3_ForcedRefetches ==
  [][ \A p \in Lookups :
        lk[p].force =>
          /\ (lk[p].pc = "reading" /\ lk'[p].pc # "reading") =>
               lk'[p].pc \in {"queued", "fetching"}
          /\ Finishes(p) =>
               IF lk'[p].outcome = "resolved" /\ ~lk'[p].writeFailed
               THEN /\ lk[p].pc = "writing"
                    /\ KeyOf(p) \in DOMAIN store'
                    /\ store'[KeyOf(p)] = lk[p].obj
                    /\ lk[p].obj.fetchedAt <= now
               ELSE /\ lk'[p].outcome = "rejected" \/ lk'[p].writeFailed
                    /\ store' = store
    ]_vars

\* C3, its case: a forced lookup fetches although the entry of its key is
\* fresh.
C3_Witness ==
  \E p \in Lookups :
    /\ lk[p].force
    /\ lk[p].pc = "fetching"
    /\ KeyOf(p) \in DOMAIN store
    /\ now - store[KeyOf(p)].fetchedAt < CACHE_TTL_MS

C5_OnlyFeatureCollections ==
  /\ \A p \in Lookups :
       (lk[p].pc = "done" /\ lk[p].outcome \in {"resolved", "cached"}) =>
         lk[p].value.shape = "fc"
  /\ \A k \in DOMAIN store : store[k].data.shape = "fc"

\* C6: a lookup whose cache read failed goes to the scheduler as on a miss
\* and its outcome is decided by the candidates alone: it rejects exactly
\* when all of them failed, with a candidate's error and never the read
\* error, and resolves with the payload of the first that did not fail.
C6_ReadFailureIsCacheMiss ==
  \A p \in Lookups :
    lk[p].readFailed =>
      /\ lk[p].pc \in {"queued", "fetching", "writing", "done"}
      /\ lk[p].pc = "done" =>
           /\ lk[p].outcome \in {"resolved", "rejected"}
           /\ lk[p].outcome = "rejected" <=> lk[p].failed = Len(UrlsOf(p))
           /\ lk[p].outcome = "rejected" =>
                /\ lk[p].value.t = "error"
                /\ lk[p].value.kind \in CandidateErrorKinds
           /\ lk[p].outcome = "resolved" =>
                /\ lk[p].value.t = "data"
                /\ lk[p].value.file = UrlsOf(p)[lk[p].failed + 1]

\* C6, its case: the read failed although the store holds a fresh entry for
\* the key, and the lookup rejected because every candidate failed.
C6_Witness ==
  \E p \in Lookups :
    /\ lk[p].readFailed
    /\ lk[p].pc = "done"
    /\ lk[p].outcome = "rejected"
    /\ KeyOf(p) \in DOMAIN store
    /\ now - store[KeyOf(p)].fetchedAt < CACHE_TTL_MS

\* C7: a lookup whose cache write failed has resolved with the payload of
\* the candidate the write was for, the first that did not fail; it has
\* tried no further candidate and holds no slot.
C7_WriteFailureStillResolves ==
  \A p \in Lookups :
    lk[p].writeFailed =>
      /\ lk[p].pc = "done"
      /\ lk[p].outcome = "resolved"
      /\ lk[p].value.t = "data"
      /\ lk[p].value.file = UrlsOf(p)[lk[p].failed + 1]
      /\ p \notin Admitted
      /\ active = Cardinality(Admitted)

\* C7, its case: the write for the second candidate failed, after the first
\* candidate failed, and the store holds nothing for the key.
C7_Witness ==
  \E p \in Lookups :
    /\ lk[p].writeFailed
    /\ lk[p].pc = "done"
    /\ lk[p].failed = 1
    /\ KeyOf(p) \notin DOMAIN store

\* The keys the finished sweep deleted, and the keys it found not expired.
SweepDeleted == DOMAIN sweep.before \ DOMAIN store

SweepNotExpired ==
  { k \in DOMAIN sweep.before :
      sweep.now - sweep.before[k].fetchedAt <= CACHE_EXPIRY_MS }

\* C8: once the sweep has applied its deletions, no entry is older than
\* CACHE_EXPIRY_MS and at most CACHE_MAX_ENTRIES entries remain.
C8_SweepBoundsAgeAndCount ==
  sweep.pc = "done" =>
    /\ \A k \in DOMAIN store :
         sweep.now - store[k].fetchedAt <= CACHE_EXPIRY_MS
    /\ Cardinality(DOMAIN store) <= CACHE_MAX_ENTRIES

\* C8, its case: the sweep found expired entries and more than
\* CACHE_MAX_ENTRIES others, one of them exactly CACHE_EXPIRY_MS old.
C8_Witness ==
  /\ sweep.pc = "done"
  /\ SweepDeleted \ SweepNotExpired # {}
  /\ Cardinality(SweepNotExpired) > CACHE_MAX_ENTRIES
  /\ \E k \in DOMAIN sweep.before :
       sweep.now - sweep.before[k].fetchedAt = CACHE_EXPIRY_MS

C10_InvalidateOffered ==
  \A k \in DOMAIN store : ENABLED (AnyStep /\ k \notin DOMAIN store')

\* C11: the queue is served from its head. A step leaves the queue as it
\* was, appends the task it enqueues, or admits the task at the head (and
\* no other); so of two waiting tasks the one enqueued first starts first.
C11_WaitingTasksStartInOrder ==
  [][ /\ \/ queue' = queue
         \/ \E p \in Tasks : queue' = Append(queue, p) /\ lk[p].pc = "reading"
         \/ /\ queue # <<>>
            /\ queue' = Tail(queue)
            /\ lk'[Head(queue)].pc = "fetching"
      /\ \A i, j \in 1..Len(queue) :
           (i < j /\ lk'[queue[j]].pc # "queued") => lk'[queue[i]].pc # "queued"
      /\ \A p \in Tasks :
           (lk[p].pc = "queued" /\ lk'[p].pc # "queued") =>
             /\ p = Head(queue)
             /\ lk'[p].pc = "fetching"
    ]_vars

\* C11, its case: two tasks waited, the one enqueued first has started and
\* the other still waits.
C11_Witness ==
  \E p, q \in Tasks :
    /\ lk[p].waited
    /\ lk[p].pc = "fetching"
    /\ lk[q].waited
    /\ lk[q].pc = "queued"
    /\ p < q

\* C12: the step that settles an admitted task, resolved or rejected,
\* releases its slot once and admits the head of the queue if there is one;
\* no other task changes: none is failed, stopped or given the result.
C12_SettleReleasesSlotAndAdmitsNext ==
  [][ \A p \in Tasks :
        Finishes(p) =>
          /\ lk[p].pc \in {"fetching", "writing"}
          /\ lk'[p].outcome \in {"resolved", "rejected"}
          /\ IF queue = <<>>
             THEN /\ active' = active - 1
                  /\ queue' = queue
                  /\ \A q \in Tasks \ {p} : lk'[q] = lk[q]
             ELSE /\ active' = active
                  /\ queue' = Tail(queue)
                  /\ lk'[Head(queue)] =
                       [lk[Head(queue)] EXCEPT !.pc = "fetching", !.c = 1]
                  /\ \A q \in Tasks \ {p, Head(queue)} : lk'[q] = lk[q]
          /\ active' = Cardinality(Admitted')
    ]_vars

\* C12, its case: a task has rejected, a task that waited has been admitted
\* and runs with every slot taken.
C12_Witness ==
  \E p, q \in Tasks :
    /\ lk[p].pc = "done"
    /\ lk[p].outcome = "rejected"
    /\ lk[q].waited
    /\ lk[q].pc = "fetching"
    /\ active = MAX_CONCURRENT_FETCHES
    /\ Cardinality(Admitted) = MAX_CONCURRENT_FETCHES

\* The candidate lookup p is at is the one after those that failed; the
\* object it writes and the value it resolves with come from that candidate.
FirstSuccessWins(p) ==
  /\ lk[p].pc = "fetching" =>
       /\ lk[p].c = lk[p].failed + 1
       /\ lk[p].c <= Len(UrlsOf(p))
  /\ lk[p].pc = "writing" =>
       /\ lk[p].c = lk[p].failed + 1
       /\ lk[p].obj.source = UrlsOf(p)[lk[p].c]
       /\ lk[p].obj.data.file = UrlsOf(p)[lk[p].c]
  /\ (lk[p].pc = "done" /\ lk[p].outcome = "resolved") =>
       /\ lk[p].value.t = "data"
       /\ lk[p].value.file = UrlsOf(p)[lk[p].failed + 1]
       /\ ~lk[p].writeFailed =>
            /\ KeyOf(p) \in DOMAIN store
            /\ store[KeyOf(p)].data = lk[p].value
            /\ store[KeyOf(p)].source = UrlsOf(p)[lk[p].failed + 1]

C14_OverlappingLookupsLastWriteWins ==
  [][ /\ \A p \in Overlapping :
           /\ ( /\ lk[p].pc = "reading"
                /\ lk'[p].pc # "reading"
                /\ ~ServedFromCache(KeyOf(p), lk[p].force, store, now) ) =>
                  /\ lk'[p].pc = "fetching"
                  /\ lk'[p].c = 1
                  /\ p \in Fetching'
           /\ (Finishes(p) /\ lk'[p].outcome = "resolved") =>
                  /\ lk[p].pc = "writing"
                  /\ lk'[p].value = lk[p].obj.data
                  /\ lk'[p].value.file = UrlsOf(p)[lk[p].failed + 1]
                  /\ store' = (KeyOf(p) :> lk[p].obj) @@ store
                  /\ store'[KeyOf(p)] = lk[p].obj
                  /\ \A k \in DOMAIN store \ {KeyOf(p)} :
                       k \in DOMAIN store' /\ store'[k] = store[k]
      /\ store' # store =>
           \E p \in Overlapping : lk[p].pc = "writing" /\ Finishes(p)
    ]_vars

\* C14, its case: two lookups of one key, neither forced, were in flight
\* together; both fetched and resolved, with different payloads at different
\* times, and the entry of the key is the whole object of the one that wrote
\* last.
C14_Witness ==
  /\ \A p \in Overlapping :
       /\ lk[p].pc = "done"
       /\ lk[p].outcome = "resolved"
       /\ ~lk[p].force
  /\ KeyOf(1) = KeyOf(2)
  /\ lk[1].value # lk[2].value
  /\ store[KeyOf(1)].data = lk[1].value
  /\ store[KeyOf(1)].source = lk[1].value.file
  /\ store[KeyOf(1)].fetchedAt = now
  /\ now > 0

\* C15: what toRepoSlug returns is made of a-z, 0-9 and '-' with no two
\* dashes in a row, and toRepoSlug of it is itself: the call repeated on
\* the result returns the result.
C15_SlugIdempotent ==
  [][ /\ SlugReturns =>
           /\ \A i \in 1..Len(calc'.result) :
                /\ calc'.result[i] \in LowerChars \cup DigitChars \cup {"-"}
                /\ i > 1 =>
                     ~(calc'.result[i - 1] = "-" /\ calc'.result[i] = "-")
           /\ toRepoSlug(calc'.result) = calc'.result
      /\ SlugAgain => toRepoSlug(calc'.args[1]) = calc'.args[1]
    ]_vars

\* C15, its case: a text with an accented capital, a space and an ampersand
\* became a slug.
C15_Witness ==
  /\ calc.pc = "returned"
  /\ calc.fn = "toRepoSlug"
  /\ calc.args = << <<"U+00C9", " ", "&">> >>
  /\ calc.result = <<"e", "-", "a", "n", "d">>

\* The four paths of the claim for suburb text s and state st, in its order:
\* slug, percent-encoded text, underscore slug, loose lowercase variant.
ClaimedPaths(suburb, state) ==
  LET s  == OrEmpty(suburb)
      st == toUpperCase(OrEmpty(state)) \o <<"/">>
  IN  << st \o toRepoSlug(s) \o Ext,
         st \o encodeURIComponent(s) \o Ext,
         st \o [i \in DOMAIN toRepoSlug(s) |->
                  IF toRepoSlug(s)[i] = "-" THEN "_" ELSE toRepoSlug(s)[i]]
            \o Ext,
         st \o SelectSeq(CollapseRuns(SpaceChars, "-", toLowerCase(s)),
                         LAMBDA c : c \in LowerChars \cup DigitChars \cup {"-"})
            \o Ext >>

\* The first place of path x in paths.
FirstPlace(x, paths) ==
  CHOOSE i \in 1..Len(paths) :
    paths[i] = x /\ \A j \in 1..(i - 1) : paths[j] # x

\* C16 as claimed: for every suburb text and state, empty and missing ones
\* included, candidateFilenames returns a list that is not empty, has no
\* path twice, starts with the uppercased state and the slug, and holds the
\* distinct paths in the order slug, encoded text, underscore slug, loose
\* variant.
C16_CandidatesNonEmptyDistinctOrdered ==
  (calc.fn = "candidateFilenames" /\ calc.pc # "called") =>
    /\ calc.pc = "returned"
    /\ Len(calc.result) >= 1
    /\ \A i, j \in 1..Len(calc.result) :
         i # j => calc.result[i] # calc.result[j]
    /\ LET paths == ClaimedPaths(calc.args[1], calc.args[2])
       IN  /\ calc.result[1] = paths[1]
           /\ { calc.result[i] : i \in 1..Len(calc.result) } =
                { paths[i] : i \in 1..Len(paths) }
           /\ \A i, j \in 1..Len(calc.result) :
                i < j => FirstPlace(calc.result[i], paths)
                           < FirstPlace(calc.result[j], paths)

\* C16 on the texts encodeURIComponent accepts (those without a lone
\* surrogate).
C16_HoldsWhenEncodable ==
  ~MalformedURI(OrEmpty(calc.args[1])) => C16_CandidatesNonEmptyDistinctOrdered

\* The places of the features of fs whose address (the first non-empty one
\* among the address keys) normalises as the street text q does.
MatchingPlaces(fs, q) ==
  { i \in 1..Len(fs) :
      \E j \in 1..Len(AddressKeys) :
        /\ Truthy(Prop(fs[i], AddressKeys[j]))
        /\ \A h \in 1..(j - 1) : ~Truthy(Prop(fs[i], AddressKeys[h]))
        /\ normalizeAddress(Prop(fs[i], AddressKeys[j])) = normalizeAddress(q) }

\* C17: for a feature collection and a non-empty street text, the match is
\* a feature exactly when some feature's normalised address equals the
\* normalised text, and then it is the last such feature of the collection;
\* otherwise it is null. It is always the one or the other.
C17_MatchIsLastEqualNormalisedAddress ==
  ( /\ calc.fn = "matchAddress"
    /\ calc.pc # "called"
    /\ HasFeatures(calc.args[1])
    /\ Truthy(calc.args[2]) ) =>
      /\ calc.pc = "returned"
      /\ LET fs     == calc.args[1].features
             places == MatchingPlaces(fs, calc.args[2])
         IN  IF places = {}
             THEN calc.result = Null
             ELSE calc.result =
                    fs[CHOOSE i \in places : \A j \in places : j <= i]

\* C17, its case: two features with different addresses that normalise
\* alike, the first of them last in the collection and returned.
C17_Witness ==
  /\ calc.fn = "matchAddress"
  /\ calc.pc = "returned"
  /\ calc.args[2] = <<"1", " ", "L", "N">>
  /\ HasFeatures(calc.args[1])
  /\ Len(calc.args[1].features) = 3
  /\ Prop(calc.args[1].features[1], "full_address") = Text1Ln
  /\ Prop(calc.args[1].features[2], "address") = Text1LaneDot
  /\ calc.args[1].features[3] = calc.args[1].features[1]
  /\ calc.result = calc.args[1].features[3]
  /\ calc.result # calc.args[1].features[2]

\* C18: a sweep beside lookups deletes only entries that are, when they are
\* deleted, the entries it read and judged expired or excess: between its
\* read of the store and its deletes no cache write is applied.
C18_SweepDeletesWhatItJudged ==
  [][ /\ (sweep.pc = "scanned" /\ sweep'.pc = "scanned" => store' = store)
      /\ (sweep.pc = "scanned" /\ sweep'.pc = "done" =>
            \A k \in DOMAIN store \ DOMAIN store' :
              /\ k \in DOMAIN sweep.before
              /\ store[k] = sweep.before[k]
              /\ \E i \in 1..Len(toDelete(sweep.before, sweep.now)) :
                    toDelete(sweep.before, sweep.now)[i] = k) ]_vars

\* C18, its case: the sweep has deleted the entry of a key while the put of
\* a lookup of that key was waiting, and the put has been applied since.
C18_Witness ==
  /\ sweep.pc = "done"
  /\ SweptKey \in sweep.del
  /\ SweptKey \in sweep.waiting
  /\ SweptKey \in DOMAIN store
  /\ store[SweptKey].fetchedAt = sweep.now

\* The places of the features of fs that fall into category.
PlacesOf(fs, category) ==
  { i \in 1..Len(fs) : normalizeTypeString(RawType(fs[i])) = category }

\* C19: the example of a category in a summary is the one of the first
\* feature of the collection that falls into the category (its first
\* non-empty address, else its geometry text); no later feature of the
\* category supplies it.
C19_ExampleFromFirstOfCategory ==
  ( /\ calc.fn = "summarizeGeoJSON"
    /\ calc.pc = "returned"
    /\ HasFeatures(calc.args[1]) ) =>
      LET fs == calc.args[1].features
      IN  \A category \in DOMAIN calc.result.examples :
            \E i \in PlacesOf(fs, category) :
              /\ \A j \in PlacesOf(fs, category) : i <= j
              /\ calc.result.examples[category] = ExampleOf(fs[i])

\* What the code does instead: the example is the one of the first feature
\* of the category that has an address or a geometry, and '' when no feature
\* of the category has either.
C19_ExampleFromFirstWithExample ==
  ( /\ calc.fn = "summarizeGeoJSON"
    /\ calc.pc = "returned"
    /\ HasFeatures(calc.args[1]) ) =>
      LET fs == calc.args[1].features
      IN  /\ DOMAIN calc.result.examples =
               { normalizeTypeString(RawType(fs[i])) : i \in 1..Len(fs) }
          /\ \A category \in DOMAIN calc.result.examples :
                LET with == { i \in PlacesOf(fs, category) :
                                Truthy(ExampleOf(fs[i])) }
                IN  IF with = {}
                    THEN calc.result.examples[category] = <<>>
                    ELSE \E i \in with :
                           /\ \A j \in with : i <= j
                           /\ calc.result.examples[category] =
                                ExampleOf(fs[i])

\* C20: after every dispatch of nbn_suburb_refreshed, every card that
\* showed a badge for the suburb and state of the event shows the summary
\* of the event, whatever refreshes came before.
C20_EveryRefreshUpdatesBadges ==
  page.ev # None =>
    \A d \in page.ev.badged :
      ( /\ page.cards[d].suburb = page.ev.suburb
        /\ page.cards[d].state = page.ev.state ) =>
          page.cards[d].shown = page.version

\* What the code does instead: a dispatch updates the badges whose listener
\* was still registered, which no event since the card was processed has
\* reached; the other badges keep the summary they showed.
C20_OnlyFirstEventUpdates ==
  [][ (page.ev # None /\ page'.version # page.version) =>
        \A d \in Cards :
          page'.cards[d].shown =
            IF /\ page.cards[d].armed
               /\ page.cards[d].suburb = page'.ev.suburb
               /\ page.cards[d].state = page'.ev.state
            THEN page'.version
            ELSE page.cards[d].shown ]_vars

\* C21: when every fetch and every IndexedDB request completes in the end,
\* every task given to enqueue is admitted in the end and every admitted
\* task settles in the end: none waits in the queue for ever.
C21_EveryTaskAdmittedAndSettles ==
  \A p \in LiveLookups :
    /\ (lk[p].pc = "queued") ~> (lk[p].pc \in {"fetching", "writing"})
    /\ (lk[p].pc \in {"queued", "fetching", "writing"}) ~>
         (lk[p].pc = "done" /\ lk[p].outcome \in {"resolved", "rejected"})

\* C21, its case: every task has settled, some resolved and some rejected,
\* one cache write failed, and a task that had to wait has settled too.
C21_Witness ==
  /\ \A p \in LiveLookups : lk[p].pc = "done"
  /\ \E p, q, r \in LiveLookups :
       /\ lk[p].outcome = "resolved"
       /\ lk[p].writeFailed
       /\ lk[q].outcome = "rejected"
       /\ lk[r].waited

\* C22: the fetchedAt of the entry of a key never decreases: a step that
\* replaces an entry puts one stamped at the same instant or later.
C22_FetchedAtNeverDecreases ==
  [][ \A k \in DOMAIN store \cap DOMAIN store' :
        store'[k].fetchedAt >= store[k].fetchedAt ]_vars

\* C22, its case: two lookups of one key overlapped, the first has written
\* its entry and the put of the second, stamped later, is about to replace
\* it.
C22_Witness ==
  /\ idb # <<>>
  /\ Head(idb).op = "put"
  /\ \E p, q \in Overlapping :
       /\ p # q
       /\ Head(idb).p = p
       /\ KeyOf(p) = KeyOf(q)
       /\ lk[q].pc = "done"
       /\ lk[q].outcome = "resolved"
       /\ ~lk[q].writeFailed
       /\ KeyOf(p) \in DOMAIN store
       /\ store[KeyOf(p)].data = lk[q].value
       /\ lk[p].obj.fetchedAt > store[KeyOf(p)].fetchedAt

\* C23: a candidate that fails writes nothing, and neither does a lookup
\* whose candidates all fail. The step in which a candidate fails leaves
\* the store as it is and asks for no write; a lookup rejects straight from
\* such a step; and the store changes only when the put of a candidate that
\* succeeded is applied, for the key of that lookup.
C23_FailedCandidatesWriteNothing ==
  [][ /\ \A p \in Lookups :
           /\ lk'[p].failed > lk[p].failed =>
                /\ store' = store
                /\ idb' = idb
                /\ lk[p].pc = "fetching"
           /\ (lk[p].pc # "done" /\ lk'[p].outcome = "rejected") =>
                /\ lk'[p].failed = Len(UrlsOf(p))
                /\ lk'[p].failed > lk[p].failed
      /\ store' # store =>
           \E p \in Lookups :
             /\ lk[p].pc = "writing"
             /\ lk'[p].outcome = "resolved"
             /\ store' = (KeyOf(p) :> lk[p].obj) @@ store
    ]_vars

\* C23, its case: every candidate of a forced lookup has failed and the
\* entry of its key, written by an earlier lookup from the second
\* candidate after the first had failed, is still the one in the store.
C23_Witness ==
  \E p \in Lookups :
    /\ lk[p].pc = "done"
    /\ lk[p].force
    /\ lk[p].outcome = "rejected"
    /\ lk[p].failed = Len(UrlsOf(p))
    /\ KeyOf(p) \in DOMAIN store
    /\ store[KeyOf(p)].fetchedAt < now
    /\ store[KeyOf(p)].source = UrlsOf(p)[2]

\* The (suburb, state) pairs with the candidate URLs of lookup p whose key
\* holds a fresh entry.
FreshUnderSameCandidates(p) ==
  { in \in LookupInputs :
      /\ UrlTable[in] = UrlsOf(p)
      /\ KeyTable[in] \in DOMAIN store
      /\ now - store[KeyTable[in]].fetchedAt < CACHE_TTL_MS }

\* Lookup p is not forced and this step is its idbGet resolving.
ReadResolves(p) ==
  /\ lk[p].pc = "reading"
  /\ lk'[p].pc # "reading"
  /\ ~lk'[p].readFailed
  /\ ~lk[p].force

\* C24: two lookups with the same candidate paths use the same cache key.
\* When the read of an unforced lookup succeeds while the store holds a
\* fresh entry written for a pair with the same candidate paths, the lookup
\* is served that entry without a fetch.
C24_SameCandidatesSameEntry ==
  [][ \A p \in Lookups :
        ( /\ ReadResolves(p)
          /\ FreshUnderSameCandidates(p) # {} ) =>
            /\ \A in \in FreshUnderSameCandidates(p) : KeyTable[in] = KeyOf(p)
            /\ lk'[p].outcome = "cached"
            /\ lk'[p].value = store[KeyOf(p)].data
    ]_vars

\* What the code does instead: the lookup is served the fresh entry of a
\* pair with the same candidate paths when the state texts of the two are
\* the same, letter case included, and fetches when they are not.
C24_ServedWhenStateTextsEqual ==
  [][ \A p \in Lookups :
        ( /\ ReadResolves(p)
          /\ FreshUnderSameCandidates(p) # {} ) =>
            ( lk'[p].outcome = "cached" <=>
                \E in \in FreshUnderSameCandidates(p) :
                  in.state = lk[p].state )
    ]_vars

\* C25: between the steps of the event loop, `active` is the number of
\* admitted tasks that have not settled, it is not negative, and a task
\* waits in the queue only when every slot is taken.
C25_CounterExactAndWorkConserving ==
  /\ active = Cardinality(Admitted)
  /\ active >= 0
  /\ queue # <<>> => active = MAX_CONCURRENT_FETCHES
  /\ \A i \in 1..Len(queue) : lk[queue[i]].pc = "queued"
  /\ \A p \in Tasks : lk[p].pc = "queued" => \E i \in 1..Len(queue) : queue[i] = p

\* C25, its case: a task has rejected, a task that waited has taken its
\* slot, every slot is taken (one by a task that is writing) and a task
\* waits.
C25_Witness ==
  /\ Len(queue) = 1
  /\ active = MAX_CONCURRENT_FETCHES
  /\ \E p, q, r \in Tasks :
       /\ lk[p].pc = "done" /\ lk[p].outcome = "rejected"
       /\ lk[q].pc = "fetching" /\ lk[q].waited
       /\ lk[r].pc = "writing"

=============================================================================
